---- MODULE Spec2Model ----
(***************************************************************************)
(* The legal-services marketplace: bookings, payments, escrow, incentive   *)
(* points, refunds, reviews, legal emergencies, crowdfunding donations,    *)
(* provider availability and the slots offered for a date                  *)
(* (core/views.py, core/tasks.py, core/payment_service.py, core/models.py) *)
(* and the notification and emergency websocket consumers                  *)
(* (core/consumers.py).  Database rows are records; uuid primary keys are  *)
(* the row's index; a NULL timestamp is the empty tuple and a stored       *)
(* timestamp t is <<t>>; a NULL or blank id is 0.                          *)
(***************************************************************************)
EXTENDS Integers, Sequences, FiniteSets, TLC

\* ---- bounds of the model ----
MaxBookings == 2
MaxOrders == 1
MaxClock == 1
MaxPoints == 20
MaxRequests == 2
MaxDays == 8
MaxEmergencies == 2
MaxBonusPoints == 300
MaxConns == 2
MaxNotifications == 2
MaxCampaigns == 1
MaxDonations == 2

\* ---- program constants ----
ESCROW_AUTO_RELEASE_DAYS == 7
ACCEPT_POINTS == 10
COMPLETE_POINTS == 50
AUTO_RELEASE_POINTS == 10
PANIC_BUTTON_BONUS_POINTS == 100
RAZORPAY_KEY_SECRET == "key_secret"

\* ---- small input sets ----
Clients == {"c1"}
Providers == {"p1", "p2"}
Users == Clients \cup Providers
Dates == {"2025-01-06"}
Times == {"10:00", "11:00"}
OrderIds == 1..MaxOrders
PaymentIds == OrderIds
BookingIds == 1..MaxBookings
WebhookSecrets == {"", "whsec"}

VARIABLES
    bookings,       \* table bookings: sequence of Booking rows, id = index
    payments,       \* table payments: sequence of Payment rows
    points,         \* ProviderProfile.incentive_points, per provider
    escrows,        \* table escrow_transactions: booking id -> <<>> or <<row>>
    orders_issued,  \* number of orders the gateway has created
    now,            \* timezone.now()
    webhook_secret, \* settings.RAZORPAY_WEBHOOK_SECRET
    requests,       \* in-flight htmx_create_booking requests
    resp,           \* the response of the last request handled
    escrow_jobs,    \* in-flight release_escrow / dispute_escrow requests
    task,           \* the running auto_release_escrow_payments task
    emergencies,    \* table legal_emergencies: sequence of LegalEmergency rows
    reviews,        \* table reviews: sequence of Review rows
    rating,         \* ProviderProfile.rating per provider, a fraction <<num, den>>
    conns,          \* NotificationConsumer connections: state and scope user
    groups,         \* channel layer: group name -> set of member connections
    notifications,  \* table notifications: sequence of Notification rows
    inbox,          \* per connection, the notifications sent down the socket
    campaigns,      \* table crowdfunding_campaigns
    donations,      \* table crowdfunding_donations
    donate_jobs,    \* in-flight donate_to_campaign requests
    availability,   \* table provider_availability: per provider, its rows
    time_off,       \* table provider_time_off: the <<provider, date>> rows
    awarded         \* per booking, how often accept_booking added its points

\* the state of the flows that run next to the booking and payment handlers
\* the tables htmx_check_availability reads besides bookings
schedule == <<availability, time_off>>

more == <<conns, groups, notifications, inbox, campaigns, donations, donate_jobs,
          schedule>>

flows == <<escrow_jobs, task, emergencies, reviews, rating, more>>

aux == <<flows, awarded>>

vars == <<bookings, payments, points, escrows, orders_issued, now,
          webhook_secret, requests, resp, aux>>

Null == <<>>
At(t) == <<t>>

ActiveStatuses == {"pending", "payment_pending", "confirmed", "accepted", "in-progress"}

\* A response: the handler, the HTTP status, the JSON success flag (FALSE when
\* absent), the message, and for the webhook the branch that answered "ok".
RespVia(op, code, success, msg, path) ==
    [op |-> op, code |-> code, success |-> success, msg |-> msg, path |-> path]

Resp(op, code, success, msg) == RespVia(op, code, success, msg, "")

NoResp == Resp("none", 0, FALSE, "")

\* an escrow request that has not started; row is the EscrowTransaction
\* instance the request holds in memory
IdleJob == [pc |-> "idle", op |-> "", id |-> 0, row |-> <<>>]

\* the task when it is not running; rows are the instances its queryset loaded
IdleTask == [pc |-> "idle", rows |-> <<>>, todo |-> {}, count |-> 0]

\* User.role
Role(user) == IF user \in Providers THEN "provider" ELSE "citizen"

\* f'notifications_{self.user.id}' and f'notifications_{self.user.role}'
UserGroup(user) == <<"notifications", user>>

RoleGroup(user) == <<"notifications", Role(user)>>

GroupNames == {UserGroup(u) : u \in Users} \cup {RoleGroup(u) : u \in Users}

\* a socket that has not connected; user "" is the AnonymousUser of the scope
NoConn == [state |-> "none", user |-> ""]

\* a donate_to_campaign request that has not started; row is the
\* CrowdfundingCampaign instance the request holds in memory
IdleDonation == [pc |-> "idle", id |-> 0, amount |-> 0, row |-> <<>>]

\* the flows next to the booking and payment handlers at rest
AuxInit ==
    /\ escrow_jobs = [j \in 1..MaxRequests |-> IdleJob]
    /\ task = IdleTask
    /\ emergencies = <<>>
    /\ reviews = <<>>
    /\ rating = [p \in Providers |-> <<0, 1>>]
    /\ conns = [c \in 1..MaxConns |-> NoConn]
    /\ groups = [g \in GroupNames |-> {}]
    /\ notifications = <<>>
    /\ inbox = [c \in 1..MaxConns |-> {}]
    /\ campaigns = <<>>
    /\ donations = <<>>
    /\ availability = [p \in Providers |-> {}]
    /\ time_off = {}
    /\ donate_jobs = [j \in 1..MaxRequests |-> IdleDonation]
    /\ awarded = [b \in BookingIds |-> 0]

IdleRequest == [pc |-> "idle", user |-> "", provider |-> "", date |-> "", time |-> "",
                outcome |-> ""]

\* hmac.new(key, msg, hashlib.sha256).hexdigest(): a digest is determined by
\* the key and the message and differs for different keys or messages.
HmacSha256(key, msg) == <<"sha256", key, msg>>

\* f"{razorpay_order_id}|{razorpay_payment_id}"
SignedMessage(order_id, payment_id) == <<order_id, "|", payment_id>>

\* The gateway takes one payment per order: payment k pays order k, and the
\* checkout hands the payer the digest of that pair under the key secret.
GatewaySignature(order_id) ==
    HmacSha256(RAZORPAY_KEY_SECRET, SignedMessage(order_id, order_id))

\* razorpay_signature values a caller can post: none, the gateway's digests
\* for the orders issued so far, or a digest made without the key secret
PaymentSignatures(issued, order_id, payment_id) ==
    {Null, HmacSha256("forged", SignedMessage(order_id, payment_id))}
        \cup {GatewaySignature(o) : o \in 1..issued}

\* PaymentService.verify_payment_signature
verify_payment_signature_always_valid(order_id, payment_id, signature) == TRUE

verify_payment_signature(order_id, payment_id, signature) ==
    HmacSha256(RAZORPAY_KEY_SECRET, SignedMessage(order_id, payment_id)) = signature

\* The empty database under a deployment whose RAZORPAY_WEBHOOK_SECRET is one
\* of secrets ("" is the default of settings.py).
InitWith(secrets) ==
    /\ bookings = <<>>
    /\ payments = <<>>
    /\ points = [p \in Providers |-> 0]
    /\ escrows = [b \in BookingIds |-> Null]
    /\ orders_issued = 0
    /\ now = 0
    /\ webhook_secret \in secrets
    /\ requests = [r \in 1..MaxRequests |-> IdleRequest]
    /\ resp = NoResp
    /\ AuxInit

Init == InitWith(WebhookSecrets)

\* the handlers of these flows never read the webhook secret
InitDefaultSettings == InitWith({""})

Exists(id) == id \in 1..Len(bookings)

\* Booking.objects.filter(provider, scheduled_date, scheduled_time, status__in=[...]).exists()
SlotCheckStatuses == {"pending", "payment_pending", "confirmed", "accepted"}

existing_booking(provider, date, time) ==
    \E b \in 1..Len(bookings) :
        /\ bookings[b].provider = provider
        /\ bookings[b].scheduled_date = date
        /\ bookings[b].scheduled_time = time
        /\ bookings[b].status \in SlotCheckStatuses

\* Booking.objects.create(... status='payment_pending' ...) with the model defaults
NewBooking(user, provider, date, time) ==
    [user |-> user, provider |-> provider, status |-> "payment_pending",
     escrow_status |-> "pending", payment_id |-> 0, payment_order_id |-> 0,
     payment_signature |-> Null, is_paid |-> FALSE, paid_at |-> Null,
     scheduled_date |-> date, scheduled_time |-> time]

\* htmx_create_booking, handled without interleaving
htmx_create_booking(user, provider, date, time) ==
    /\ IF existing_booking(provider, date, time)
       THEN /\ resp' = Resp("htmx_create_booking", 200, FALSE, "This slot has been booked")
            /\ UNCHANGED bookings
       ELSE /\ Len(bookings) < MaxBookings
            /\ bookings' = Append(bookings, NewBooking(user, provider, date, time))
            /\ resp' = Resp("htmx_create_booking", 200, TRUE, "Booking Created")
    /\ UNCHANGED <<payments, points, escrows, orders_issued, now, webhook_secret, requests, aux>>


\* get_object_or_404(Booking, id=booking_id, user=request.user)
OwnedBooking(user, id) == Exists(id) /\ bookings[id].user = user

\* get_object_or_404(Booking, id=booking_id, provider=provider)
ProviderBooking(user, id) == Exists(id) /\ bookings[id].provider = user

\* Payment.objects.create(...) with the model defaults
NewPayment(user, booking_id, order_id) ==
    [user |-> user, booking |-> booking_id, razorpay_order_id |-> order_id,
     razorpay_payment_id |-> 0, razorpay_signature |-> Null, status |-> "created"]

\* create_payment_order; gateway_ok is the outcome of PaymentService.create_order.
\* After booking.save() and Payment.objects.create() the handler builds the
\* success response, which reads request.user.phone_number; User has the
\* field phone and no attribute phone_number, so the AttributeError reaches
\* "except Exception" and the answer is success=false with the error text.
create_payment_order(user, id, gateway_ok) ==
    /\ IF ~OwnedBooking(user, id)
       THEN /\ resp' = Resp("create_payment_order", 200, FALSE, "No Booking matches the given query.")
            /\ UNCHANGED <<bookings, payments, orders_issued>>
       ELSE IF bookings[id].is_paid
       THEN /\ resp' = Resp("create_payment_order", 200, FALSE, "Booking is already paid")
            /\ UNCHANGED <<bookings, payments, orders_issued>>
       ELSE IF ~gateway_ok
       THEN /\ resp' = Resp("create_payment_order", 200, FALSE, "Failed to create order")
            /\ UNCHANGED <<bookings, payments, orders_issued>>
       ELSE /\ orders_issued < MaxOrders
            /\ orders_issued' = orders_issued + 1
            /\ bookings' = [bookings EXCEPT ![id].payment_order_id = orders_issued + 1]
            /\ payments' = Append(payments, NewPayment(user, id, orders_issued + 1))
            /\ resp' = Resp("create_payment_order", 200, FALSE,
                            "'User' object has no attribute 'phone_number'")
    /\ UNCHANGED <<points, escrows, now, webhook_secret, requests, aux>>

\* verify_payment: the booking update
PaidBookingEscrowPending(row, payment_id, signature, t) ==
    [row EXCEPT !.payment_id = payment_id, !.payment_signature = signature,
                !.is_paid = TRUE, !.paid_at = At(t), !.status = "confirmed"]

PaidBooking(row, payment_id, signature, t) ==
    [row EXCEPT !.payment_id = payment_id, !.payment_signature = signature,
                !.is_paid = TRUE, !.paid_at = At(t), !.status = "confirmed",
                !.escrow_status = "held"]

\* verify_payment: Payment.objects.filter(razorpay_order_id=...).update(...)
VerifiedPayments(pm, order_id, payment_id, signature) ==
    [i \in 1..Len(pm) |->
        IF pm[i].razorpay_order_id = order_id
        THEN [pm[i] EXCEPT !.razorpay_payment_id = payment_id,
                           !.razorpay_signature = signature, !.status = "captured"]
        ELSE pm[i]]

\* not all([razorpay_order_id, razorpay_payment_id, razorpay_signature, booking_id])
MissingPaymentDetails(order_id, payment_id, signature, id) ==
    order_id = 0 \/ payment_id = 0 \/ signature = Null \/ id = 0

\* verify_payment, "Send notifications": with a Payment row for the order the
\* handler calls send_payment_notifications(payment, booking), a function of
\* one parameter, which raises TypeError; without one it goes on to
\* send_booking_notifications(booking), whose mail and SMS calls succeed or
\* raise.
NotificationOutcomes(pm, order_id) ==
    IF \E i \in 1..Len(pm) : pm[i].razorpay_order_id = order_id
    THEN {"TypeError"}
    ELSE {"sent", "error"}

\* verify_payment: the response after the notification block, whose
\* "except Exception" prints the error
VerifiedResponseFailingOnError(outcome) ==
    IF outcome = "sent"
    THEN RespVia("verify_payment", 200, TRUE, "Payment verified successfully", outcome)
    ELSE RespVia("verify_payment", 200, FALSE, "Notification error", outcome)

VerifiedResponse(outcome) ==
    RespVia("verify_payment", 200, TRUE, "Payment verified successfully", outcome)

\* verify_payment
verify_payment(user, order_id, payment_id, signature, id) ==
    /\ IF MissingPaymentDetails(order_id, payment_id, signature, id)
       THEN /\ resp' = Resp("verify_payment", 200, FALSE, "Missing payment details")
            /\ UNCHANGED <<bookings, payments>>
       ELSE IF ~verify_payment_signature(order_id, payment_id, signature)
       THEN /\ resp' = Resp("verify_payment", 200, FALSE, "Invalid payment signature")
            /\ UNCHANGED <<bookings, payments>>
       ELSE IF ~OwnedBooking(user, id)
       THEN /\ resp' = Resp("verify_payment", 200, FALSE, "No Booking matches the given query.")
            /\ UNCHANGED <<bookings, payments>>
       ELSE /\ bookings' = [bookings EXCEPT ![id] = PaidBooking(@, payment_id, signature, now)]
            /\ payments' = VerifiedPayments(payments, order_id, payment_id, signature)
            /\ resp' \in {VerifiedResponse(outcome) :
                            outcome \in NotificationOutcomes(payments, order_id)}
    /\ UNCHANGED <<points, escrows, orders_issued, now, webhook_secret, requests, aux>>


\* request.body of a gateway callback: event, payment entity order_id and id
\* (refund entity payment_id for refund.created); 0 is an absent key.
WebhookBody(event, order_id, payment_id) == <<event, order_id, payment_id>>

\* X-Razorpay-Signature headers: absent, or a digest of a body under some key
WebhookSignatures(secret, body) ==
    {Null, HmacSha256(secret, body), HmacSha256("forged", body)}

\* razorpay_webhook: the signature gate
WebhookRejected(secret, header, body) ==
    secret # "" /\ header # HmacSha256(secret, body)

\* Booking.objects.filter(payment_order_id=order_id).first(), ordering -created_at;
\* 0 if there is none
FirstBookingWithOrder(bk, order_id) ==
    LET hits == {b \in 1..Len(bk) : bk[b].payment_order_id = order_id}
    IN IF hits = {} THEN 0 ELSE CHOOSE b \in hits : \A c \in hits : c <= b

\* razorpay_webhook, payment.captured: the booking update
CapturedBooking(row, payment_id, t) ==
    [row EXCEPT !.payment_id = payment_id, !.is_paid = TRUE, !.paid_at = At(t),
                !.status = "confirmed", !.escrow_status = "held"]

\* razorpay_webhook, payment.captured: "if booking and not booking.is_paid"
CaptureAppliesEvenIfPaid(bk, order_id) ==
    FirstBookingWithOrder(bk, order_id) # 0

CaptureApplies(bk, order_id) ==
    /\ FirstBookingWithOrder(bk, order_id) # 0
    /\ ~bk[FirstBookingWithOrder(bk, order_id)].is_paid

CapturedBookings(bk, order_id, payment_id, t) ==
    IF CaptureApplies(bk, order_id)
    THEN [bk EXCEPT ![FirstBookingWithOrder(bk, order_id)] = CapturedBooking(@, payment_id, t)]
    ELSE bk

CapturedPayments(bk, pm, order_id, payment_id) ==
    IF CaptureApplies(bk, order_id)
    THEN [i \in 1..Len(pm) |->
            IF pm[i].razorpay_order_id = order_id
            THEN [pm[i] EXCEPT !.razorpay_payment_id = payment_id, !.status = "captured"]
            ELSE pm[i]]
    ELSE pm

\* razorpay_webhook, payment.failed
FailedPayments(pm, order_id) ==
    [i \in 1..Len(pm) |->
        IF pm[i].razorpay_order_id = order_id
        THEN [pm[i] EXCEPT !.status = "failed"] ELSE pm[i]]

\* razorpay_webhook, refund.created
RefundedPayments(pm, payment_id) ==
    [i \in 1..Len(pm) |->
        IF pm[i].razorpay_payment_id = payment_id
        THEN [pm[i] EXCEPT !.status = "refunded"] ELSE pm[i]]

RefundedBookings(bk, payment_id) ==
    [b \in 1..Len(bk) |->
        IF bk[b].payment_id = payment_id
        THEN [bk[b] EXCEPT !.escrow_status = "refunded", !.status = "cancelled"]
        ELSE bk[b]]

\* razorpay_webhook
razorpay_webhook(header, event, order_id, payment_id) ==
    /\ IF WebhookRejected(webhook_secret, header, WebhookBody(event, order_id, payment_id))
       THEN /\ resp' = Resp("razorpay_webhook", 400, FALSE, "invalid_signature")
            /\ UNCHANGED <<bookings, payments>>
       ELSE /\ resp' = RespVia("razorpay_webhook", 200, TRUE, "ok",
                              IF event # "payment.captured" THEN event
                              ELSE IF CaptureApplies(bookings, order_id) THEN "captured"
                              ELSE IF FirstBookingWithOrder(bookings, order_id) = 0
                                   THEN "no booking" ELSE "already paid")
            /\ CASE event = "payment.captured" ->
                      /\ bookings' = CapturedBookings(bookings, order_id, payment_id, now)
                      /\ payments' = CapturedPayments(bookings, payments, order_id, payment_id)
                 [] event = "payment.failed" ->
                      /\ payments' = FailedPayments(payments, order_id)
                      /\ UNCHANGED bookings
                 [] event = "refund.created" ->
                      /\ payments' = RefundedPayments(payments, payment_id)
                      /\ bookings' = RefundedBookings(bookings, payment_id)
                 [] OTHER -> UNCHANGED <<bookings, payments>>
    /\ UNCHANGED <<points, escrows, orders_issued, now, webhook_secret, requests, aux>>

\* accept_booking: "booking.status not in ['pending', 'confirmed']"
AcceptableStatusesWithAccepted == {"pending", "confirmed", "accepted"}

AcceptableStatuses == {"pending", "confirmed"}

\* accept_booking
accept_booking(user, id) ==
    /\ IF user \notin Providers
       THEN /\ resp' = Resp("accept_booking", 200, FALSE, "Provider profile not found")
            /\ UNCHANGED <<bookings, points, awarded>>
       ELSE IF ~ProviderBooking(user, id)
       THEN /\ resp' = Resp("accept_booking", 404, FALSE, "Not Found")
            /\ UNCHANGED <<bookings, points, awarded>>
       ELSE IF bookings[id].status \notin AcceptableStatuses
       THEN /\ resp' = Resp("accept_booking", 200, FALSE, "Booking cannot be accepted in current status")
            /\ UNCHANGED <<bookings, points, awarded>>
       ELSE /\ points[user] + ACCEPT_POINTS <= MaxPoints
            /\ bookings' = [bookings EXCEPT ![id].status = "accepted"]
            /\ points' = [points EXCEPT ![user] = @ + ACCEPT_POINTS]
            /\ awarded' = [awarded EXCEPT ![id] = @ + 1]
            /\ resp' = Resp("accept_booking", 200, TRUE, "Booking accepted successfully")
    /\ UNCHANGED <<payments, escrows, orders_issued, now, webhook_secret, requests, flows>>

\* complete_booking: "booking.status not in ['accepted', 'in-progress']"
CompletableStatuses == {"accepted", "in-progress"}

\* complete_booking.  After booking.save() the handler evaluates
\* "provider.cases_won += 1"; ProviderProfile has no attribute cases_won, so
\* the AttributeError leaves the handler before provider.save(): the
\* in-memory "incentive_points += 50" is never written.
complete_booking(user, id) ==
    /\ IF user \notin Providers
       THEN /\ resp' = Resp("complete_booking", 200, FALSE, "Provider profile not found")
            /\ UNCHANGED bookings
       ELSE IF ~ProviderBooking(user, id)
       THEN /\ resp' = Resp("complete_booking", 404, FALSE, "Not Found")
            /\ UNCHANGED bookings
       ELSE IF bookings[id].status \notin CompletableStatuses
       THEN /\ resp' = Resp("complete_booking", 200, FALSE, "Booking cannot be completed in current status")
            /\ UNCHANGED bookings
       ELSE /\ bookings' = [bookings EXCEPT ![id].status = "completed"]
            /\ resp' = Resp("complete_booking", 500, FALSE, "AttributeError: cases_won")
    /\ UNCHANGED <<points, payments, escrows, orders_issued, now, webhook_secret, requests, aux>>

\* request_refund: the booking update after a successful gateway refund
RefundedBookingEscrowOnly(row) == [row EXCEPT !.escrow_status = "refunded"]

RefundedBooking(row) == [row EXCEPT !.escrow_status = "refunded", !.status = "cancelled"]

\* request_refund; gateway_ok is the outcome of PaymentService.refund_payment
request_refund(user, id, gateway_ok) ==
    /\ IF ~OwnedBooking(user, id)
       THEN /\ resp' = Resp("request_refund", 404, FALSE, "Not Found")
            /\ UNCHANGED bookings
       ELSE IF bookings[id].status = "completed"
       THEN /\ resp' = Resp("request_refund", 200, FALSE, "Cannot refund completed bookings")
            /\ UNCHANGED bookings
       ELSE IF ~bookings[id].is_paid
       THEN /\ resp' = Resp("request_refund", 200, FALSE, "No payment to refund")
            /\ UNCHANGED bookings
       ELSE IF bookings[id].payment_id = 0
       THEN /\ resp' = Resp("request_refund", 200, FALSE, "Unable to process refund")
            /\ UNCHANGED bookings
       ELSE IF ~gateway_ok
       THEN /\ resp' = Resp("request_refund", 200, FALSE, "Refund failed")
            /\ UNCHANGED bookings
       ELSE /\ bookings' = [bookings EXCEPT ![id] = RefundedBooking(@)]
            /\ resp' = Resp("request_refund", 200, TRUE, "Refund processed successfully")
    /\ UNCHANGED <<points, payments, escrows, orders_issued, now, webhook_secret, requests, aux>>

\* the clock of timezone.now() advances
Tick ==
    /\ now < MaxClock
    /\ now' = now + 1
    /\ UNCHANGED <<bookings, payments, points, escrows, orders_issued, webhook_secret,
                   requests, resp, aux>>

\* htmx_create_booking as the database sees it: the "slot still available"
\* query and the INSERT are two statements with no lock, transaction or unique
\* constraint between them (Booking.Meta declares none).
HtmxCheckSlot(r, user, provider, date, time) ==
    /\ requests[r].pc = "idle"
    /\ requests' = [requests EXCEPT ![r] =
          IF existing_booking(provider, date, time)
          THEN [pc |-> "done", user |-> user, provider |-> provider, date |-> date,
                time |-> time, outcome |-> "This slot has been booked"]
          ELSE [pc |-> "checked", user |-> user, provider |-> provider, date |-> date,
                time |-> time, outcome |-> ""]]
    /\ UNCHANGED <<bookings, payments, points, escrows, orders_issued, now, webhook_secret, resp, aux>>

HtmxInsertBooking(r) ==
    /\ requests[r].pc = "checked"
    /\ Len(bookings) < MaxBookings
    /\ bookings' = Append(bookings, NewBooking(requests[r].user, requests[r].provider,
                                               requests[r].date, requests[r].time))
    /\ requests' = [requests EXCEPT ![r].pc = "done", ![r].outcome = "Booking Created"]
    /\ resp' = Resp("htmx_create_booking", 200, TRUE, "Booking Created")
    /\ UNCHANGED <<payments, points, escrows, orders_issued, now, webhook_secret, aux>>

\* ---- escrow ----
\* EscrowTransaction(booking=...) with the model defaults
NewEscrow ==
    [status |-> "pending", service_completed |-> FALSE, client_confirmed |-> FALSE,
     held_at |-> Null, released_at |-> Null, dispute_opened_at |-> Null]

HasEscrow(id) == Exists(id) /\ escrows[id] # Null

\* No view or task creates an EscrowTransaction or sets held_at or
\* service_completed: the rows are entered and advanced through the
\* registered EscrowTransactionAdmin.  The staff workflow is: add the row for
\* a booking, mark the payment held, mark the service completed, refund.
AdminAddEscrow(id) ==
    /\ Exists(id)
    /\ escrows[id] = Null
    /\ escrows' = [escrows EXCEPT ![id] = <<NewEscrow>>]
    /\ UNCHANGED <<bookings, payments, points, orders_issued, now, webhook_secret, requests, resp, aux>>

AdminHoldEscrow(id) ==
    /\ HasEscrow(id)
    /\ escrows[id][1].status = "pending"
    /\ escrows' = [escrows EXCEPT ![id] = <<[@[1] EXCEPT !.status = "held", !.held_at = At(now)]>>]
    /\ UNCHANGED <<bookings, payments, points, orders_issued, now, webhook_secret, requests, resp, aux>>

AdminMarkServiceCompleted(id) ==
    /\ HasEscrow(id)
    /\ ~escrows[id][1].service_completed
    /\ escrows' = [escrows EXCEPT ![id] = <<[@[1] EXCEPT !.service_completed = TRUE]>>]
    /\ UNCHANGED <<bookings, payments, points, orders_issued, now, webhook_secret, requests, resp, aux>>

AdminRefundEscrow(id) ==
    /\ HasEscrow(id)
    /\ escrows[id][1].status \in {"held", "disputed"}
    /\ escrows' = [escrows EXCEPT ![id] = <<[@[1] EXCEPT !.status = "refunded"]>>]
    /\ UNCHANGED <<bookings, payments, points, orders_issued, now, webhook_secret, requests, resp, aux>>

\* release_escrow: the row the handler saves
ClientConfirmedAlwaysReleases(row, t) ==
    [row EXCEPT !.client_confirmed = TRUE, !.status = "released", !.released_at = At(t)]

ClientConfirmed(row, t) ==
    IF row.service_completed
    THEN [row EXCEPT !.client_confirmed = TRUE, !.status = "released", !.released_at = At(t)]
    ELSE [row EXCEPT !.client_confirmed = TRUE]

\* release_escrow
release_escrow(user, id) ==
    /\ IF ~OwnedBooking(user, id)
       THEN /\ resp' = Resp("release_escrow", 404, FALSE, "Not Found")
            /\ UNCHANGED escrows
       ELSE IF escrows[id] = Null
       THEN /\ resp' = Resp("release_escrow", 404, FALSE, "No escrow transaction found")
            /\ UNCHANGED escrows
       ELSE /\ escrows' = [escrows EXCEPT ![id] = <<ClientConfirmed(@[1], now)>>]
            /\ resp' = RespVia("release_escrow", 200, TRUE, "", ClientConfirmed(escrows[id][1], now).status)
    /\ UNCHANGED <<bookings, payments, points, orders_issued, now, webhook_secret, requests, aux>>

\* dispute_escrow: the row the handler saves
Disputed(row, t) == [row EXCEPT !.status = "disputed", !.dispute_opened_at = At(t)]

\* dispute_escrow
dispute_escrow(user, id) ==
    /\ IF ~OwnedBooking(user, id)
       THEN /\ resp' = Resp("dispute_escrow", 404, FALSE, "Not Found")
            /\ UNCHANGED escrows
       ELSE IF escrows[id] = Null
       THEN /\ resp' = Resp("dispute_escrow", 404, FALSE, "No escrow transaction found")
            /\ UNCHANGED escrows
       ELSE /\ escrows' = [escrows EXCEPT ![id] = <<Disputed(@[1], now)>>]
            /\ resp' = Resp("dispute_escrow", 200, TRUE, "")
    /\ UNCHANGED <<bookings, payments, points, orders_issued, now, webhook_secret, requests, aux>>

\* auto_release_escrow_payments: cutoff_date
cutoff_date(t) == t - ESCROW_AUTO_RELEASE_DAYS

\* EscrowTransaction.objects.filter(status='held', service_completed=True,
\*                                  held_at__lt=cutoff_date)
DueEscrowsIgnoringCompletion(es, t) ==
    {b \in DOMAIN es :
        /\ es[b] # Null
        /\ es[b][1].status = "held"
        /\ es[b][1].held_at # Null
        /\ es[b][1].held_at[1] < cutoff_date(t)}

DueEscrowsAtCutoff(es, t) ==
    {b \in DOMAIN es :
        /\ es[b] # Null
        /\ es[b][1].status = "held"
        /\ es[b][1].service_completed
        /\ es[b][1].held_at # Null
        /\ es[b][1].held_at[1] <= cutoff_date(t)}

DueEscrows(es, t) ==
    {b \in DOMAIN es :
        /\ es[b] # Null
        /\ es[b][1].status = "held"
        /\ es[b][1].service_completed
        /\ es[b][1].held_at # Null
        /\ es[b][1].held_at[1] < cutoff_date(t)}

\* auto_release_escrow_payments: the loop over the selected rows (newest
\* first); each pass saves the row, then loads the booking's provider, adds
\* the bonus and saves the provider.  The result is <<escrows, points, count>>.
RECURSIVE ReleaseLoop(_, _, _, _, _)
ReleaseLoop(es, pts, todo, t, count) ==
    IF todo = {} THEN <<es, pts, count>>
    ELSE LET b == CHOOSE x \in todo : \A y \in todo : y <= x
             provider == bookings[b].provider
         IN ReleaseLoop(
               [es EXCEPT ![b] = <<[@[1] EXCEPT !.status = "released", !.released_at = At(t)]>>],
               [pts EXCEPT ![provider] = @ + AUTO_RELEASE_POINTS],
               todo \ {b}, t, count + 1)

\* auto_release_escrow_payments (Celery beat, daily)
auto_release_escrow_payments ==
    LET result == ReleaseLoop(escrows, points, DueEscrows(escrows, now), now, 0)
    IN /\ \A p \in Providers : result[2][p] <= MaxPoints
       /\ escrows' = result[1]
       /\ points' = result[2]
       /\ resp' = RespVia("auto_release_escrow_payments", 0, TRUE, "released", ToString(result[3]))
       /\ UNCHANGED <<bookings, payments, orders_issued, now, webhook_secret, requests, aux>>

\* days pass between two runs of the daily task
DaySteps == {ESCROW_AUTO_RELEASE_DAYS, ESCROW_AUTO_RELEASE_DAYS + 1}

AdvanceDays(d) ==
    /\ now + d <= MaxDays
    /\ now' = now + d
    /\ UNCHANGED <<bookings, payments, points, escrows, orders_issued, webhook_secret,
                   requests, resp, aux>>

\* ---- the escrow handlers as the database sees them ----
\* None of release_escrow, dispute_escrow and the task takes a lock or runs in
\* a transaction: each loads EscrowTransaction instances, changes them in
\* memory, and Model.save() later writes every column of the instance back.

\* release_escrow up to "escrow = booking.escrow_transaction"
release_escrow_load(j, user, id) ==
    /\ escrow_jobs[j].pc = "idle"
    /\ IF ~OwnedBooking(user, id)
       THEN /\ resp' = Resp("release_escrow", 404, FALSE, "Not Found")
            /\ escrow_jobs' = [escrow_jobs EXCEPT ![j] = [IdleJob EXCEPT !.pc = "done", !.op = "release"]]
       ELSE IF escrows[id] = Null
       THEN /\ resp' = Resp("release_escrow", 404, FALSE, "No escrow transaction found")
            /\ escrow_jobs' = [escrow_jobs EXCEPT ![j] = [IdleJob EXCEPT !.pc = "done", !.op = "release"]]
       ELSE /\ escrow_jobs' = [escrow_jobs EXCEPT ![j] =
                  [pc |-> "loaded", op |-> "release", id |-> id, row |-> escrows[id]]]
            /\ UNCHANGED resp
    /\ UNCHANGED <<bookings, payments, points, escrows, orders_issued, now, webhook_secret,
                   requests, task, emergencies, reviews, rating, more, awarded>>

\* release_escrow from "escrow.client_confirmed = True" to the response
release_escrow_save(j) ==
    /\ escrow_jobs[j].pc = "loaded"
    /\ escrow_jobs[j].op = "release"
    /\ escrows' = [escrows EXCEPT ![escrow_jobs[j].id] = <<ClientConfirmed(escrow_jobs[j].row[1], now)>>]
    /\ resp' = RespVia("release_escrow", 200, TRUE, "",
                       ClientConfirmed(escrow_jobs[j].row[1], now).status)
    /\ escrow_jobs' = [escrow_jobs EXCEPT ![j].pc = "done", ![j].row = Null]
    /\ UNCHANGED <<bookings, payments, points, orders_issued, now, webhook_secret, requests, task, emergencies, reviews, rating, more, awarded>>

\* dispute_escrow up to "escrow = booking.escrow_transaction"
dispute_escrow_load(j, user, id) ==
    /\ escrow_jobs[j].pc = "idle"
    /\ IF ~OwnedBooking(user, id)
       THEN /\ resp' = Resp("dispute_escrow", 404, FALSE, "Not Found")
            /\ escrow_jobs' = [escrow_jobs EXCEPT ![j] = [IdleJob EXCEPT !.pc = "done", !.op = "dispute"]]
       ELSE IF escrows[id] = Null
       THEN /\ resp' = Resp("dispute_escrow", 404, FALSE, "No escrow transaction found")
            /\ escrow_jobs' = [escrow_jobs EXCEPT ![j] = [IdleJob EXCEPT !.pc = "done", !.op = "dispute"]]
       ELSE /\ escrow_jobs' = [escrow_jobs EXCEPT ![j] =
                  [pc |-> "loaded", op |-> "dispute", id |-> id, row |-> escrows[id]]]
            /\ UNCHANGED resp
    /\ UNCHANGED <<bookings, payments, points, escrows, orders_issued, now, webhook_secret,
                   requests, task, emergencies, reviews, rating, more, awarded>>

\* dispute_escrow from "escrow.status = 'disputed'" to the response
dispute_escrow_save(j) ==
    /\ escrow_jobs[j].pc = "loaded"
    /\ escrow_jobs[j].op = "dispute"
    /\ escrows' = [escrows EXCEPT ![escrow_jobs[j].id] = <<Disputed(escrow_jobs[j].row[1], now)>>]
    /\ resp' = Resp("dispute_escrow", 200, TRUE, "")
    /\ escrow_jobs' = [escrow_jobs EXCEPT ![j].pc = "done", ![j].row = Null]
    /\ UNCHANGED <<bookings, payments, points, orders_issued, now, webhook_secret, requests, task, emergencies, reviews, rating, more, awarded>>

\* auto_release_escrow_payments: "for transaction in transactions" runs the
\* query once and holds the selected instances
auto_release_select ==
    /\ task.pc = "idle"
    /\ task' = [pc |-> "running", rows |-> [b \in DueEscrows(escrows, now) |-> escrows[b]],
                todo |-> DueEscrows(escrows, now), count |-> 0]
    /\ UNCHANGED <<bookings, payments, points, escrows, orders_issued, now, webhook_secret,
                   requests, resp, escrow_jobs, emergencies, reviews, rating, more, awarded>>

\* auto_release_escrow_payments: one pass of the loop body, on the instance
\* loaded by the query
auto_release_save_next ==
    /\ task.pc = "running"
    /\ task.todo # {}
    /\ LET b == CHOOSE x \in task.todo : \A y \in task.todo : y <= x
           provider == bookings[b].provider
       IN /\ points[provider] + AUTO_RELEASE_POINTS <= MaxPoints
          /\ escrows' = [escrows EXCEPT ![b] =
                <<[task.rows[b][1] EXCEPT !.status = "released", !.released_at = At(now)]>>]
          /\ points' = [points EXCEPT ![provider] = @ + AUTO_RELEASE_POINTS]
          /\ task' = [task EXCEPT !.todo = @ \ {b}, !.count = @ + 1,
                                   !.rows = [x \in task.todo \ {b} |-> task.rows[x]]]
    /\ UNCHANGED <<bookings, payments, orders_issued, now, webhook_secret, requests, resp,
                   escrow_jobs, emergencies, reviews, rating, more, awarded>>

\* auto_release_escrow_payments: "return {'released': released_count}"
auto_release_return ==
    /\ task.pc = "running"
    /\ task.todo = {}
    /\ resp' = RespVia("auto_release_escrow_payments", 0, TRUE, "released", ToString(task.count))
    /\ task' = IdleTask
    /\ UNCHANGED <<bookings, payments, points, escrows, orders_issued, now, webhook_secret,
                   requests, escrow_jobs, emergencies, reviews, rating, more, awarded>>

\* ---- legal emergencies (panic button) ----
\* the variables of the booking, payment and escrow flows
core == <<bookings, payments, escrows, orders_issued, webhook_secret, requests,
          escrow_jobs, task>>

\* LegalEmergency.objects.create(user=...) with the model defaults; a NULL
\* responder is ""
NewEmergency(user) ==
    [user |-> user, responder |-> "", status |-> "active", responded_at |-> Null]

\* create_emergency (and the consumer's 'panic' action, which creates the
\* same row); notification errors are caught and printed
create_emergency(user) ==
    /\ Len(emergencies) < MaxEmergencies
    /\ emergencies' = Append(emergencies, NewEmergency(user))
    /\ resp' = Resp("create_emergency", 200, TRUE, "")
    /\ UNCHANGED <<core, points, now, reviews, rating, more, awarded>>

\* get_object_or_404(LegalEmergency, id=emergency_id, status='active')
ActiveEmergency(e) == e \in 1..Len(emergencies) /\ emergencies[e].status = "active"

\* respond_to_emergency, the HTTP view
respond_to_emergency(user, e) ==
    /\ IF ~ActiveEmergency(e)
       THEN /\ resp' = Resp("respond_to_emergency", 404, FALSE, "Not Found")
            /\ UNCHANGED <<emergencies, points>>
       ELSE IF user \notin Providers
       THEN /\ resp' = Resp("respond_to_emergency", 403, FALSE, "Only providers can respond")
            /\ UNCHANGED <<emergencies, points>>
       ELSE /\ points[user] + PANIC_BUTTON_BONUS_POINTS <= MaxBonusPoints
            /\ emergencies' = [emergencies EXCEPT ![e] =
                  [@ EXCEPT !.responder = user, !.status = "responded",
                            !.responded_at = At(now)]]
            /\ points' = [points EXCEPT ![user] = @ + PANIC_BUTTON_BONUS_POINTS]
            /\ resp' = Resp("respond_to_emergency", 200, TRUE, "")
    /\ UNCHANGED <<core, now, reviews, rating, more, awarded>>

\* EmergencyConsumer.receive with action 'respond', which calls
\* EmergencyConsumer.respond_to_emergency: LegalEmergency.objects.get(id=...)
\* with no status filter, and the bonus for a user with a provider profile
EmergencyConsumer_respond_to_emergency(user, e) ==
    /\ IF e \notin 1..Len(emergencies)
       THEN /\ resp' = Resp("EmergencyConsumer.respond", 0, FALSE, "DoesNotExist")
            /\ UNCHANGED <<emergencies, points>>
       ELSE /\ emergencies' = [emergencies EXCEPT ![e] =
                  [@ EXCEPT !.responder = user, !.status = "responded"]]
            /\ IF user \in Providers
               THEN /\ points[user] + PANIC_BUTTON_BONUS_POINTS <= MaxBonusPoints
                    /\ points' = [points EXCEPT ![user] = @ + PANIC_BUTTON_BONUS_POINTS]
               ELSE UNCHANGED points
            /\ resp' = Resp("EmergencyConsumer.respond", 0, TRUE, "")
    /\ UNCHANGED <<core, now, reviews, rating, more, awarded>>

\* ---- reviews ----
\* get_object_or_404(Booking, id=booking_id, user=request.user, status='completed')
CompletedOwnedBooking(user, id) ==
    OwnedBooking(user, id) /\ bookings[id].status = "completed"

\* Review.objects.filter(booking=booking).exists()
ReviewExists(rv, id) == \E i \in 1..Len(rv) : rv[i].booking = id

\* int(request.POST.get('rating', 5)): an absent field is <<>>, a posted
\* number n is <<n>>
PostedRating(field) == IF field = Null THEN 5 ELSE field[1]

RECURSIVE SumRatings(_, _)
SumRatings(rv, keep) ==
    IF rv = <<>> THEN 0
    ELSE (IF keep[Len(rv)] THEN rv[Len(rv)].rating ELSE 0)
            + SumRatings(SubSeq(rv, 1, Len(rv) - 1), SubSeq(keep, 1, Len(rv) - 1))

\* Review.objects.filter(provider=...).aggregate(avg=Avg('rating'))['avg'],
\* as the fraction sum / count
AvgRatingAllProviders(rv, provider) ==
    <<SumRatings(rv, [i \in 1..Len(rv) |-> TRUE]), Len(rv)>>

AvgRating(rv, provider) ==
    <<SumRatings(rv, [i \in 1..Len(rv) |-> rv[i].provider = provider]),
      Cardinality({i \in 1..Len(rv) : rv[i].provider = provider})>>

\* submit_review
submit_review(user, id, field) ==
    /\ IF ~CompletedOwnedBooking(user, id)
       THEN /\ resp' = Resp("submit_review", 404, FALSE, "Not Found")
            /\ UNCHANGED <<reviews, rating, more, awarded>>
       ELSE IF ReviewExists(reviews, id)
       THEN /\ resp' = Resp("submit_review", 200, FALSE, "You have already reviewed this consultation")
            /\ UNCHANGED <<reviews, rating, more, awarded>>
       ELSE IF PostedRating(field) < 1 \/ PostedRating(field) > 5
       THEN /\ resp' = Resp("submit_review", 200, FALSE, "Invalid rating")
            /\ UNCHANGED <<reviews, rating, more, awarded>>
       ELSE /\ reviews' = Append(reviews, [user |-> user, provider |-> bookings[id].provider,
                                           booking |-> id, rating |-> PostedRating(field)])
            /\ rating' = [rating EXCEPT ![bookings[id].provider] =
                              AvgRating(reviews', bookings[id].provider)]
            /\ resp' = Resp("submit_review", 200, TRUE, "Review submitted successfully")
    /\ UNCHANGED <<bookings, payments, points, escrows, orders_issued, now, webhook_secret,
                   requests, escrow_jobs, task, emergencies, more, awarded>>

\* rating fields a client can post: none, in range, out of range
RatingFields == {Null, <<0>>, <<1>>, <<4>>, <<6>>}

\* ---- notifications over the websocket ----
\* everything but the notification state and the last response
besides_notifications ==
    <<core, points, now, emergencies, reviews, rating, campaigns, donations, donate_jobs,
      schedule, awarded>>

\* the groups a connection is a member of
Memberships(c) == {g \in GroupNames : c \in groups[g]}

\* get_pending_notifications: the user's unread notifications (the first ten)
PendingNotifications(user) ==
    {n \in 1..Len(notifications) : notifications[n].user = user /\ ~notifications[n].is_read}

\* NotificationConsumer.connect; user "" is an unauthenticated scope
NotificationConsumer_connect(c, user) ==
    /\ conns[c].state = "none"
    /\ IF user = ""
       THEN /\ conns' = [conns EXCEPT ![c] = [state |-> "closed", user |-> ""]]
            /\ UNCHANGED <<groups, inbox>>
       ELSE /\ groups' = [g \in GroupNames |->
                  IF g \in {UserGroup(user), RoleGroup(user)} THEN groups[g] \cup {c}
                  ELSE groups[g]]
            /\ conns' = [conns EXCEPT ![c] = [state |-> "open", user |-> user]]
            /\ inbox' = [inbox EXCEPT ![c] = @ \cup PendingNotifications(user)]
    /\ resp' = Resp("NotificationConsumer.connect", 0, user # "", "")
    /\ UNCHANGED <<besides_notifications, notifications>>

\* NotificationConsumer.disconnect; afterwards the socket is gone
NotificationConsumer_disconnect(c) ==
    /\ conns[c].state \in {"open", "closed"}
    /\ IF conns[c].user # ""
       THEN groups' = [g \in GroupNames |->
                IF g \in {UserGroup(conns[c].user), RoleGroup(conns[c].user)}
                THEN groups[g] \ {c} ELSE groups[g]]
       ELSE UNCHANGED groups
    /\ conns' = [conns EXCEPT ![c] = NoConn]
    /\ inbox' = [inbox EXCEPT ![c] = {}]
    /\ resp' = Resp("NotificationConsumer.disconnect", 0, TRUE, "")
    /\ UNCHANGED <<besides_notifications, notifications>>

\* mark_notification_read:
\* Notification.objects.filter(id=notification_id, user=self.user).update(is_read=True)
MarkedReadAnyUser(nt, nid, user) ==
    [k \in 1..Len(nt) |-> IF k = nid THEN [nt[k] EXCEPT !.is_read = TRUE] ELSE nt[k]]

MarkedRead(nt, nid, user) ==
    [k \in 1..Len(nt) |->
        IF k = nid /\ nt[k].user = user THEN [nt[k] EXCEPT !.is_read = TRUE] ELSE nt[k]]

\* NotificationConsumer.receive on an accepted socket; nid 0 is an absent
\* notification_id
NotificationConsumer_receive(c, action, nid) ==
    /\ conns[c].state = "open"
    /\ IF action = "mark_read"
       THEN notifications' = MarkedRead(notifications, nid, conns[c].user)
       ELSE UNCHANGED notifications
    /\ resp' = RespVia("NotificationConsumer.receive", 0, TRUE, action, ToString(nid))
    /\ UNCHANGED <<besides_notifications, conns, groups, inbox>>

\* send_booking_notification / analyze_document_task: create the user's
\* Notification row, then group_send to the user's group, which reaches the
\* sockets that are members of it
send_notification(user) ==
    /\ Len(notifications) < MaxNotifications
    /\ notifications' = Append(notifications, [user |-> user, is_read |-> FALSE])
    /\ inbox' = [c \in 1..MaxConns |->
          IF c \in groups[UserGroup(user)] THEN inbox[c] \cup {Len(notifications) + 1}
          ELSE inbox[c]]
    /\ resp' = Resp("send_notification", 0, TRUE, "")
    /\ UNCHANGED <<besides_notifications, conns, groups>>

\* ---- crowdfunding ----
\* everything but the crowdfunding state and the last response
besides_crowdfunding ==
    <<core, points, now, emergencies, reviews, rating, conns, groups, notifications, inbox,
      schedule, awarded>>

\* crowdfunding_create: CrowdfundingCampaign.objects.create(...) with the
\* model defaults
crowdfunding_create(target) ==
    /\ Len(campaigns) < MaxCampaigns
    /\ campaigns' = Append(campaigns, [target_amount |-> target, raised_amount |-> 0,
                                       status |-> "pending"])
    /\ UNCHANGED <<besides_crowdfunding, donations, donate_jobs, resp>>

\* staff review through CrowdfundingCampaignAdmin: a pending campaign goes live
AdminActivateCampaign(id) ==
    /\ id \in 1..Len(campaigns)
    /\ campaigns[id].status = "pending"
    /\ campaigns' = [campaigns EXCEPT ![id].status = "active"]
    /\ UNCHANGED <<besides_crowdfunding, donations, donate_jobs, resp>>

\* donate_to_campaign as the database sees it: the SELECT of the campaign,
\* the INSERT of the donation and the UPDATE of the campaign are three
\* statements with no transaction, lock or F() expression.
\* donate_to_campaign up to the amount check
donate_to_campaign_load(j, id, amount) ==
    /\ donate_jobs[j].pc = "idle"
    /\ IF ~(id \in 1..Len(campaigns) /\ campaigns[id].status = "active")
       THEN /\ resp' = Resp("donate_to_campaign", 404, FALSE, "Not Found")
            /\ donate_jobs' = [donate_jobs EXCEPT ![j] = [IdleDonation EXCEPT !.pc = "done"]]
       ELSE IF amount <= 0
       THEN /\ resp' = Resp("donate_to_campaign", 400, FALSE, "Invalid amount")
            /\ donate_jobs' = [donate_jobs EXCEPT ![j] = [IdleDonation EXCEPT !.pc = "done"]]
       ELSE /\ donate_jobs' = [donate_jobs EXCEPT ![j] =
                  [pc |-> "loaded", id |-> id, amount |-> amount, row |-> <<campaigns[id]>>]]
            /\ UNCHANGED resp
    /\ UNCHANGED <<besides_crowdfunding, campaigns, donations>>

\* donate_to_campaign: CrowdfundingDonation.objects.create(...)
donate_to_campaign_create(j) ==
    /\ donate_jobs[j].pc = "loaded"
    /\ Len(donations) < MaxDonations
    /\ donations' = Append(donations, [campaign |-> donate_jobs[j].id,
                                       amount |-> donate_jobs[j].amount])
    /\ donate_jobs' = [donate_jobs EXCEPT ![j].pc = "created"]
    /\ UNCHANGED <<besides_crowdfunding, campaigns, resp>>

\* donate_to_campaign: "campaign.raised_amount += amount" and the status
\* change, on the instance the request loaded
Donated(row, amount) ==
    [row EXCEPT !.raised_amount = @ + amount,
                !.status = IF row.raised_amount + amount >= row.target_amount
                           THEN "funded" ELSE @]

\* donate_to_campaign: campaign.save() and the response
donate_to_campaign_save(j) ==
    /\ donate_jobs[j].pc = "created"
    /\ campaigns' = [campaigns EXCEPT ![donate_jobs[j].id] =
                        Donated(donate_jobs[j].row[1], donate_jobs[j].amount)]
    /\ resp' = RespVia("donate_to_campaign", 200, TRUE, "",
                       ToString(Donated(donate_jobs[j].row[1], donate_jobs[j].amount).raised_amount))
    /\ donate_jobs' = [donate_jobs EXCEPT ![j] = [IdleDonation EXCEPT !.pc = "done"]]
    /\ UNCHANGED <<besides_crowdfunding, donations>>

\* a finished request leaves; the worker takes the next one
donate_to_campaign_next(j) ==
    /\ donate_jobs[j].pc = "done"
    /\ donate_jobs' = [donate_jobs EXCEPT ![j] = IdleDonation]
    /\ UNCHANGED <<besides_crowdfunding, campaigns, donations, resp>>

\* ---- provider availability and the slots offered for a date ----
\* the dates and times a client can post; times are 'HH:MM' strings
ScheduleDates == {"2025-01-06", "2025-01-07"}

ScheduleTimes == {"10:00", "10:30", "12:00"}

\* datetime.strptime(date_str, '%Y-%m-%d').date().weekday(): 0 is Monday
weekday(date) ==
    CASE date = "2025-01-06" -> 0
      [] date = "2025-01-07" -> 1

\* the 'HH:MM' strings of the half hours from 09:00 to 17:30 and the
\* datetime.time each one parses to, as minutes after midnight
ClockTable ==
    {<<"09:00", 540>>, <<"09:30", 570>>, <<"10:00", 600>>, <<"10:30", 630>>,
     <<"11:00", 660>>, <<"11:30", 690>>, <<"12:00", 720>>, <<"12:30", 750>>,
     <<"13:00", 780>>, <<"13:30", 810>>, <<"14:00", 840>>, <<"14:30", 870>>,
     <<"15:00", 900>>, <<"15:30", 930>>, <<"16:00", 960>>, <<"16:30", 990>>,
     <<"17:00", 1020>>, <<"17:30", 1050>>}

\* datetime.strptime(s, '%H:%M').time()
strptime(s) == (CHOOSE e \in ClockTable : e[1] = s)[2]

\* time.strftime('%H:%M')
strftime(t) == (CHOOSE e \in ClockTable : e[2] = t)[1]

\* ProviderAvailability.objects.create(provider, day_of_week, start_time,
\* end_time) with the model default is_available=True
NewAvailability(day, start, end) ==
    [day_of_week |-> day, start_time |-> strptime(start), end_time |-> strptime(end),
     is_available |-> TRUE]

\* provider_availability_manage (POST): the provider's rows are deleted and
\* one row is created per posted (day, start, end); a user without a provider
\* profile is redirected to become_provider
provider_availability_manage(user, posted) ==
    /\ IF user \notin Providers
       THEN /\ resp' = Resp("provider_availability_manage", 302, FALSE,
                            "Provider profile not found")
            /\ UNCHANGED availability
       ELSE /\ availability' = [availability EXCEPT ![user] =
                                   {NewAvailability(r[1], r[2], r[3]) : r \in posted}]
            /\ resp' = Resp("provider_availability_manage", 302, TRUE,
                            "Availability updated successfully")
    /\ UNCHANGED <<bookings, payments, points, escrows, orders_issued, now, webhook_secret,
                   requests, escrow_jobs, task, emergencies, reviews, rating, conns, groups,
                   notifications, inbox, campaigns, donations, donate_jobs, time_off,
                   awarded>>

\* the (day, start, end) lists a provider posts
PostedAvailability == SUBSET {<<0, "10:00", "11:00">>, <<1, "12:00", "13:00">>}

\* Booking is registered with the admin site, whose change form edits status;
\* no view sets 'in-progress', staff do
AdminSetInProgress(id) ==
    /\ Exists(id)
    /\ bookings[id].status \in ActiveStatuses \ {"in-progress"}
    /\ bookings' = [bookings EXCEPT ![id].status = "in-progress"]
    /\ UNCHANGED <<payments, points, escrows, orders_issued, now, webhook_secret, requests,
                   resp, aux>>

\* ProviderTimeOff.objects.filter(provider=provider, date=selected_date).exists()
has_time_off(provider, date) == <<provider, date>> \in time_off

\* Booking.objects.filter(provider, scheduled_date, status__in=[...five
\* statuses...]).values_list('scheduled_time', flat=True)
booked_times(provider, date) ==
    {strptime(bookings[b].scheduled_time) :
        b \in {i \in 1..Len(bookings) : /\ bookings[i].provider = provider
                                        /\ bookings[i].scheduled_date = date
                                        /\ bookings[i].status \in ActiveStatuses}}

\* the while loop over one availability row: every half hour from start_time
\* that is before end_time; the 30 minutes are added on the clock of one day
RECURSIVE slot_times(_, _)
slot_times(current_time, end_time) ==
    IF current_time < end_time
    THEN {current_time} \cup slot_times((current_time + 30) % 1440, end_time)
    ELSE {}

\* ProviderAvailability.objects.filter(provider, day_of_week, is_available=True)
day_availability(provider, date) ==
    {slot \in availability[provider] :
        slot.day_of_week = weekday(date) /\ slot.is_available}

\* available_slots of htmx_check_availability: the unbooked half hours of the
\* day's rows, or when there are none the unbooked default slots
default_slots == {"09:00", "10:00", "11:00", "14:00", "15:00", "16:00", "17:00"}

available_slots(provider, date) ==
    LET booked == booked_times(provider, date)
        generated == UNION {slot_times(slot.start_time, slot.end_time) :
                              slot \in day_availability(provider, date)}
        from_rows == {strftime(t) : t \in generated \ booked}
    IN  IF from_rows # {} THEN from_rows
        ELSE {s \in default_slots : strptime(s) \notin booked}

\* the <select> htmx_check_availability answers with: its first option and
\* the values of the time options
SlotsResp(msg, slots) ==
    [op |-> "htmx_check_availability", code |-> 200, success |-> slots # {},
     msg |-> msg, path |-> "", slots |-> slots]

\* htmx_check_availability (GET) for a date
htmx_check_availability(provider, date) ==
    /\ resp' = IF has_time_off(provider, date)
               THEN SlotsResp("Provider unavailable on this date", {})
               ELSE SlotsResp("Select time", available_slots(provider, date))
    /\ UNCHANGED <<bookings, payments, points, escrows, orders_issued, now, webhook_secret,
                   requests, aux>>

\* amounts and targets, in rupees
DonationAmounts == {0, 1, 2}

TargetAmounts == {2, 3}

\* Callback payloads of the gateway: a captured payment names its order and
\* its own id, a failed payment its order, a refund its payment; other events
\* carry nothing the handler reads.
WebhookPayloads ==
    {<<"payment.captured", o, o>> : o \in OrderIds}
        \cup {<<"payment.failed", o, 0>> : o \in OrderIds}
        \cup {<<"refund.created", 0, p>> : p \in PaymentIds}
        \cup {<<"order.paid", 0, 0>>}

\* Checkout callbacks posted to verify_payment: complete ones with any order,
\* payment, signature and booking id, and ones with a single field left out.
VerifyRequests(issued) ==
    {<<o, p, s, b>> : o \in OrderIds, p \in PaymentIds,
                      s \in PaymentSignatures(issued, 1, 1) \ {Null}, b \in BookingIds}
        \cup {<<0, 1, GatewaySignature(1), 1>>, <<1, 0, GatewaySignature(1), 1>>,
               <<1, 1, Null, 1>>, <<1, 1, GatewaySignature(1), 0>>}

\* ---- payment flow: booking creation, order, checkout callback, webhook ----
NextPayments ==
    \/ \E u \in Clients, d \in Dates, t \in Times : htmx_create_booking(u, "p1", d, t)
    \/ \E u \in {"c1", "p1"}, b \in BookingIds, ok \in BOOLEAN : create_payment_order(u, b, ok)
    \/ \E u \in {"c1", "p1"}, q \in VerifyRequests(orders_issued) :
          verify_payment(u, q[1], q[2], q[3], q[4])
    \/ \E w \in WebhookPayloads :
          \E h \in WebhookSignatures(webhook_secret, WebhookBody(w[1], w[2], w[3])) :
              razorpay_webhook(h, w[1], w[2], w[3])
    \/ Tick

SpecPayments == Init /\ [][NextPayments]_vars


\* ---- booking lifecycle: every handler that writes a Booking row ----
Next ==
    \/ \E u \in Clients, p \in Providers, d \in Dates, t \in Times :
          htmx_create_booking(u, p, d, t)
    \/ \E u \in Clients, b \in BookingIds, ok \in BOOLEAN : create_payment_order(u, b, ok)
    \/ \E u \in Clients, q \in VerifyRequests(orders_issued) :
          verify_payment(u, q[1], q[2], q[3], q[4])
    \/ \E w \in WebhookPayloads :
          \E h \in WebhookSignatures(webhook_secret, WebhookBody(w[1], w[2], w[3])) :
              razorpay_webhook(h, w[1], w[2], w[3])
    \/ \E u \in Users, b \in BookingIds : accept_booking(u, b)
    \/ \E u \in Users, b \in BookingIds : complete_booking(u, b)
    \/ \E u \in Users, b \in BookingIds, ok \in BOOLEAN : request_refund(u, b, ok)

Spec == Init /\ [][Next]_vars

\* ---- concurrent booking requests ----
NextConcurrent ==
    \/ \E r \in 1..MaxRequests, u \in Users, p \in Providers, d \in Dates, t \in Times :
          HtmxCheckSlot(r, u, p, d, t)
    \/ \E r \in 1..MaxRequests : HtmxInsertBooking(r)

SpecConcurrent == InitDefaultSettings /\ [][NextConcurrent]_vars

\* ---- escrow: staff workflow, client release and dispute, daily task ----
NextEscrow ==
    \/ \E u \in Clients, p \in Providers, d \in Dates, t \in Times :
          htmx_create_booking(u, p, d, t)
    \/ \E b \in BookingIds : AdminAddEscrow(b)
    \/ \E b \in BookingIds : AdminHoldEscrow(b)
    \/ \E b \in BookingIds : AdminMarkServiceCompleted(b)
    \/ \E b \in BookingIds : AdminRefundEscrow(b)
    \/ \E u \in {"c1", "p1"}, b \in BookingIds : release_escrow(u, b)
    \/ \E u \in {"c1", "p1"}, b \in BookingIds : dispute_escrow(u, b)
    \/ auto_release_escrow_payments
    \/ \E d \in DaySteps : AdvanceDays(d)

SpecEscrow == InitDefaultSettings /\ [][NextEscrow]_vars

\* ---- refunds: bookings paid through the checkout callback or the gateway
\* callback, worked by the provider, refunded by the client ----
\* payment.captured callbacks, with the payment entity's id present or absent
CapturedPayloads ==
    {<<"payment.captured", o, p>> : o \in OrderIds, p \in {0} \cup PaymentIds}

\* checkout callbacks carrying the gateway's own signature
GenuineVerifyRequests(issued) ==
    {<<o, o, GatewaySignature(o), b>> : o \in 1..issued, b \in BookingIds}

NextRefund ==
    \/ \E u \in Clients, d \in Dates, t \in Times : htmx_create_booking(u, "p1", d, t)
    \/ \E u \in Clients, b \in BookingIds : create_payment_order(u, b, TRUE)
    \/ \E u \in Clients, q \in GenuineVerifyRequests(orders_issued) :
          verify_payment(u, q[1], q[2], q[3], q[4])
    \/ \E w \in CapturedPayloads : razorpay_webhook(Null, w[1], w[2], w[3])
    \/ \E b \in BookingIds : accept_booking("p1", b)
    \/ \E b \in BookingIds : complete_booking("p1", b)
    \/ \E u \in {"c1", "p1"}, b \in BookingIds, ok \in BOOLEAN : request_refund(u, b, ok)

SpecRefund == InitDefaultSettings /\ [][NextRefund]_vars

\* ---- escrow under concurrency: requests and the task interleave ----
NextEscrowRace ==
    \/ \E u \in Clients, d \in Dates, t \in Times : htmx_create_booking(u, "p1", d, t)
    \/ \E b \in BookingIds : AdminAddEscrow(b)
    \/ \E b \in BookingIds : AdminHoldEscrow(b)
    \/ \E b \in BookingIds : AdminMarkServiceCompleted(b)
    \/ \E j \in 1..MaxRequests, u \in Clients, b \in BookingIds : release_escrow_load(j, u, b)
    \/ \E j \in 1..MaxRequests : release_escrow_save(j)
    \/ \E j \in 1..MaxRequests, u \in Clients, b \in BookingIds : dispute_escrow_load(j, u, b)
    \/ \E j \in 1..MaxRequests : dispute_escrow_save(j)
    \/ auto_release_select
    \/ auto_release_save_next
    \/ auto_release_return
    \/ \E d \in DaySteps : AdvanceDays(d)

SpecEscrowRace == InitDefaultSettings /\ [][NextEscrowRace]_vars

\* ---- legal emergencies: the HTTP views and the websocket consumer ----
NextEmergency ==
    \/ \E u \in Users : create_emergency(u)
    \/ \E u \in Users, e \in 1..MaxEmergencies : respond_to_emergency(u, e)
    \/ \E u \in Users, e \in 1..MaxEmergencies : EmergencyConsumer_respond_to_emergency(u, e)
    \/ Tick

SpecEmergency == InitDefaultSettings /\ [][NextEmergency]_vars

\* ---- reviews: bookings are paid, accepted, completed and reviewed ----
NextReview ==
    \/ \E u \in Clients, p \in Providers, d \in Dates : htmx_create_booking(u, p, d, "10:00")
    \/ \E u \in Clients, b \in BookingIds : create_payment_order(u, b, TRUE)
    \/ \E u \in Clients, q \in GenuineVerifyRequests(orders_issued) :
          verify_payment(u, q[1], q[2], q[3], q[4])
    \/ \E p \in Providers, b \in BookingIds : accept_booking(p, b)
    \/ \E p \in Providers, b \in BookingIds : complete_booking(p, b)
    \/ \E u \in {"c1", "p1"}, b \in BookingIds, f \in RatingFields : submit_review(u, b, f)

SpecReview == InitDefaultSettings /\ [][NextReview]_vars

\* ---- notifications: sockets connect, receive, mark read, disconnect ----
NextNotifications ==
    \/ \E c \in 1..MaxConns, u \in {"", "c1", "p1"} : NotificationConsumer_connect(c, u)
    \/ \E c \in 1..MaxConns : NotificationConsumer_disconnect(c)
    \/ \E c \in 1..MaxConns, a \in {"mark_read", "ping"}, n \in 0..MaxNotifications :
          NotificationConsumer_receive(c, a, n)
    \/ \E u \in {"c1", "p1"} : send_notification(u)

SpecNotifications == InitDefaultSettings /\ [][NextNotifications]_vars

\* ---- crowdfunding: concurrent donations to a campaign ----
NextCrowdfunding ==
    \/ \E t \in TargetAmounts : crowdfunding_create(t)
    \/ \E c \in 1..MaxCampaigns : AdminActivateCampaign(c)
    \/ \E j \in 1..MaxRequests, c \in 1..MaxCampaigns, a \in DonationAmounts :
          donate_to_campaign_load(j, c, a)
    \/ \E j \in 1..MaxRequests : donate_to_campaign_create(j)
    \/ \E j \in 1..MaxRequests : donate_to_campaign_save(j)
    \/ \E j \in 1..MaxRequests : donate_to_campaign_next(j)

SpecCrowdfunding == InitDefaultSettings /\ [][NextCrowdfunding]_vars

\* ---- scheduling: availability, the slots offered, booking creation ----
NextAvailability ==
    \/ \E u \in Users, posted \in PostedAvailability : provider_availability_manage(u, posted)
    \/ \E p \in Providers, d \in ScheduleDates : htmx_check_availability(p, d)
    \/ \E u \in Clients, p \in Providers, d \in ScheduleDates, t \in ScheduleTimes :
          htmx_create_booking(u, p, d, t)
    \/ \E b \in BookingIds : AdminSetInProgress(b)

SpecAvailability == InitDefaultSettings /\ [][NextAvailability]_vars

\* ------------------------------------------------------------------------
\* Properties of the payment flow
\* ------------------------------------------------------------------------

\* every checkout callback a caller can post, well-formed or not
AllVerifyRequests ==
    {<<o, p, s, b>> : o \in 0..MaxOrders, p \in {0} \cup PaymentIds,
                      s \in PaymentSignatures(MaxOrders, 1, 1), b \in 0..MaxBookings}

\* C3: verify_payment answers success=false and changes no Booking and no
\* Payment row when a detail is missing or the signature is not the
\* HMAC-SHA256 of "order_id|payment_id" under the key secret.
C3_InvalidVerifyChangesNothing ==
    [][resp'.op = "verify_payment" =>
        \A u \in Users, q \in AllVerifyRequests :
            (/\ verify_payment(u, q[1], q[2], q[3], q[4])
             /\ \/ MissingPaymentDetails(q[1], q[2], q[3], q[4])
                \/ q[3] # HmacSha256(RAZORPAY_KEY_SECRET, SignedMessage(q[1], q[2])))
            => (resp'.success = FALSE /\ bookings' = bookings /\ payments' = payments)]_vars

C3_Witness ==
    /\ resp.op = "verify_payment"
    /\ resp.msg = "Invalid payment signature"
    /\ \E b \in 1..Len(bookings) : bookings[b].payment_order_id # 0 /\ ~bookings[b].is_paid

\* C4: verify_payment with a valid signature for a booking of the caller
\* leaves the booking paid, confirmed, escrow held, with the payment id and
\* signature recorded, and every Payment row of that order captured.
C4_ValidVerifyConfirms ==
    [][resp'.op = "verify_payment" =>
        \A u \in Users, q \in AllVerifyRequests :
            (/\ verify_payment(u, q[1], q[2], q[3], q[4])
             /\ ~MissingPaymentDetails(q[1], q[2], q[3], q[4])
             /\ q[3] = HmacSha256(RAZORPAY_KEY_SECRET, SignedMessage(q[1], q[2]))
             /\ q[4] \in 1..Len(bookings)
             /\ bookings[q[4]].user = u)
            => (/\ resp'.success = TRUE
                /\ bookings'[q[4]].is_paid = TRUE
                /\ bookings'[q[4]].status = "confirmed"
                /\ bookings'[q[4]].escrow_status = "held"
                /\ bookings'[q[4]].payment_id = q[2]
                /\ bookings'[q[4]].payment_signature = q[3]
                /\ \A i \in 1..Len(payments') :
                      payments'[i].razorpay_order_id = q[1] => payments'[i].status = "captured")]_vars

C4_Witness ==
    /\ resp.op = "verify_payment"
    /\ resp.success = TRUE
    /\ \E b \in 1..Len(bookings) : bookings[b].is_paid /\ bookings[b].payment_signature # Null
    /\ \E i \in 1..Len(payments) : payments[i].status = "captured"

\* C5: razorpay_webhook changes no Booking and no Payment row unless the
\* X-Razorpay-Signature header is the HMAC-SHA256 of the body under the
\* webhook secret.
C5_WebhookNeedsSignature ==
    [][resp'.op = "razorpay_webhook" =>
        \A w \in WebhookPayloads :
            \A h \in WebhookSignatures(webhook_secret, WebhookBody(w[1], w[2], w[3])) :
                (/\ razorpay_webhook(h, w[1], w[2], w[3])
                 /\ h # HmacSha256(webhook_secret, WebhookBody(w[1], w[2], w[3])))
                => (bookings' = bookings /\ payments' = payments)]_vars

\* C6: a payment.captured callback is idempotent: once one has been accepted,
\* or verify_payment has marked the order's booking paid, delivering the
\* event (again) at any later time changes no Booking and no Payment row.
Redelivered(bk, pm, order_id, payment_id, t) ==
    /\ CapturedBookings(bk, order_id, payment_id, t) = bk
    /\ CapturedPayments(bk, pm, order_id, payment_id) = pm

C6_CaptureIdempotent ==
    [][/\ resp'.op = "razorpay_webhook" =>
            \A o \in OrderIds :
                \A h \in WebhookSignatures(webhook_secret, WebhookBody("payment.captured", o, o)) :
                    (razorpay_webhook(h, "payment.captured", o, o) /\ resp'.code = 200)
                    => \A t \in now'..MaxClock : Redelivered(bookings', payments', o, o, t)
       /\ (resp'.op = "verify_payment" /\ resp'.success) =>
            \A u \in Users, q \in AllVerifyRequests :
                verify_payment(u, q[1], q[2], q[3], q[4])
                => \A o \in 0..MaxOrders, p \in {0} \cup PaymentIds, t \in now'..MaxClock :
                      FirstBookingWithOrder(bookings', o) = q[4]
                      => Redelivered(bookings', payments', o, p, t)]_vars

C6_Witness ==
    /\ resp.op = "razorpay_webhook"
    /\ resp.path = "already paid"
    /\ \E b \in 1..Len(bookings) :
          bookings[b].is_paid /\ bookings[b].payment_order_id # 0 /\ bookings[b].paid_at # At(now)


\* ------------------------------------------------------------------------
\* Properties of the booking lifecycle
\* ------------------------------------------------------------------------

SameSlot(x, y) ==
    /\ x.provider = y.provider
    /\ x.scheduled_date = y.scheduled_date
    /\ x.scheduled_time = y.scheduled_time

\* C1: no provider has two bookings with the same scheduled date and time
\* that are both in an active status.
C1_NoDoubleBooking ==
    \A a, b \in 1..Len(bookings) :
        (a # b /\ SameSlot(bookings[a], bookings[b]))
        => ~(bookings[a].status \in ActiveStatuses /\ bookings[b].status \in ActiveStatuses)

\* C2: of two htmx_create_booking requests for the same provider, date and
\* time whose check and insert interleave, at most one creates a booking.
C2_AtMostOneCreates ==
    \A r1, r2 \in 1..MaxRequests :
        (/\ r1 # r2
         /\ requests[r1].pc = "done"
         /\ requests[r2].pc = "done"
         /\ requests[r1].provider = requests[r2].provider
         /\ requests[r1].date = requests[r2].date
         /\ requests[r1].time = requests[r2].time)
        => ~(requests[r1].outcome = "Booking Created" /\ requests[r2].outcome = "Booking Created")

\* C7: accept_booking sets 'accepted' only for a caller who is the booking's
\* provider and a booking that is 'pending' or 'confirmed'; otherwise it
\* changes no booking and no incentive points, and for a wrong status it
\* answers success=false.
C7_AcceptGuarded ==
    [][resp'.op = "accept_booking" =>
        \A u \in Users, b \in BookingIds :
            accept_booking(u, b) =>
                IF /\ u \in Providers
                   /\ b \in 1..Len(bookings)
                   /\ bookings[b].provider = u
                   /\ bookings[b].status \in {"pending", "confirmed"}
                THEN /\ bookings'[b].status = "accepted"
                     /\ \A c \in 1..Len(bookings) : c # b => bookings'[c] = bookings[c]
                ELSE /\ bookings' = bookings
                     /\ points' = points
                     /\ resp'.success = FALSE]_vars

C7_Witness ==
    /\ resp.op = "accept_booking"
    /\ resp.msg = "Booking cannot be accepted in current status"
    /\ \E b \in 1..Len(bookings) : bookings[b].status = "accepted"

\* C8: whenever complete_booking moves a booking to 'completed', the
\* provider's incentive_points have grown by exactly 50 when the request ends.
C8_CompletionAwardsFifty ==
    [][resp'.op = "complete_booking" =>
        \A u \in Users, b \in BookingIds :
            (/\ complete_booking(u, b)
             /\ b \in 1..Len(bookings)
             /\ bookings[b].status # "completed"
             /\ bookings'[b].status = "completed")
            => (/\ bookings[b].status \in {"accepted", "in-progress"}
                /\ points'[bookings[b].provider] = points[bookings[b].provider] + COMPLETE_POINTS)]_vars


\* ------------------------------------------------------------------------
\* Properties of the escrow
\* ------------------------------------------------------------------------

IsDue(row, t) ==
    /\ row.status = "held"
    /\ row.service_completed
    /\ row.held_at # Null
    /\ t - row.held_at[1] > ESCROW_AUTO_RELEASE_DAYS

C10_AutoReleaseExact ==
    [][auto_release_escrow_payments =>
        /\ \A b \in BookingIds :
              IF escrows[b] # Null /\ IsDue(escrows[b][1], now)
              THEN escrows'[b] = <<[escrows[b][1] EXCEPT !.status = "released",
                                                         !.released_at = At(now)]>>
              ELSE escrows'[b] = escrows[b]
        /\ \A p \in Providers :
              points'[p] = points[p] + 10 * Cardinality(
                  {b \in 1..Len(bookings) :
                      /\ bookings[b].provider = p
                      /\ escrows[b] # Null
                      /\ IsDue(escrows[b][1], now)})
        /\ \A b \in BookingIds : escrows'[b] # Null => ~IsDue(escrows'[b][1], now')
        /\ ReleaseLoop(escrows', points', DueEscrows(escrows', now'), now', 0)
              = <<escrows', points', 0>>]_vars

C10_Witness ==
    /\ resp.op = "auto_release_escrow_payments"
    /\ resp.path = "1"
    /\ \E b \in BookingIds :
          /\ escrows[b] # Null
          /\ escrows[b][1].status = "released"
          /\ escrows[b][1].released_at = At(now)
    /\ \E b \in BookingIds :
          /\ escrows[b] # Null
          /\ escrows[b][1].status = "held"
          /\ escrows[b][1].service_completed
          /\ escrows[b][1].held_at # Null

\* C11: an escrow whose dispute is recorded (status 'disputed',
\* dispute_opened_at set) is not moved to 'released' by any step of
\* release_escrow, dispute_escrow or the auto-release task, however the
\* steps interleave.
C11_DisputedNeverReleased ==
    [][\A b \in BookingIds :
          (/\ escrows[b] # Null
           /\ escrows[b][1].status = "disputed"
           /\ escrows[b][1].dispute_opened_at # Null)
          => escrows'[b][1].status # "released"]_vars

\* ------------------------------------------------------------------------
\* Properties of refunds
\* ------------------------------------------------------------------------

\* C12: request_refund changes a booking only when the booking is the
\* caller's, not completed, paid, has a payment id and the gateway refund
\* succeeds: then the booking becomes 'cancelled' with escrow 'refunded' and
\* nothing else changes.  Otherwise no booking changes and the answer is
\* success=false: 'Cannot refund completed bookings' for a completed booking,
\* 'No payment to refund' for an unpaid one that is not completed.
C12_RefundOnlyOnGatewaySuccess ==
    [][resp'.op = "request_refund" =>
        \A u \in Users, b \in BookingIds, ok \in BOOLEAN :
            request_refund(u, b, ok) =>
                IF /\ b \in 1..Len(bookings)
                   /\ bookings[b].user = u
                   /\ bookings[b].status # "completed"
                   /\ bookings[b].is_paid
                   /\ bookings[b].payment_id # 0
                   /\ ok
                THEN /\ resp'.success = TRUE
                     /\ bookings' = [bookings EXCEPT ![b].status = "cancelled",
                                                     ![b].escrow_status = "refunded"]
                ELSE /\ resp'.success = FALSE
                     /\ bookings' = bookings
                     /\ (b \in 1..Len(bookings) /\ bookings[b].user = u) =>
                           /\ bookings[b].status = "completed"
                                 => resp'.msg = "Cannot refund completed bookings"
                           /\ (bookings[b].status # "completed" /\ ~bookings[b].is_paid)
                                 => resp'.msg = "No payment to refund"]_vars

C12_Witness ==
    /\ resp.op = "request_refund"
    /\ resp.msg = "Unable to process refund"
    /\ \E b \in 1..Len(bookings) :
          /\ bookings[b].is_paid
          /\ bookings[b].payment_id = 0
          /\ bookings[b].status = "confirmed"
    /\ \E b \in 1..Len(bookings) :
          /\ bookings[b].status = "cancelled"
          /\ bookings[b].escrow_status = "refunded"

\* ------------------------------------------------------------------------
\* Properties of legal emergencies
\* ------------------------------------------------------------------------

\* C13: an emergency is responded to only while 'active' and only by a user
\* with a provider profile: a row that is no longer 'active' never changes
\* (so its responder stays), a response records a provider, and bonus points
\* are added only by a response to an emergency that was 'active', once, to
\* the responder.
C13_RespondedOnce ==
    [][/\ \A e \in 1..Len(emergencies) :
            /\ emergencies[e].status # "active" => emergencies'[e] = emergencies[e]
            /\ emergencies'[e].status = "responded" => emergencies'[e].responder \in Providers
       /\ points' # points =>
            \E e \in 1..Len(emergencies) :
                /\ emergencies[e].status = "active"
                /\ emergencies'[e].status = "responded"
                /\ points' = [points EXCEPT ![emergencies'[e].responder] =
                                                @ + PANIC_BUTTON_BONUS_POINTS]]_vars

\* ------------------------------------------------------------------------
\* Properties of reviews
\* ------------------------------------------------------------------------

\* C14: each booking has at most one review and every stored rating is
\* between 1 and 5; a review is only ever added, for a booking that is then
\* 'completed' and belongs to the reviewer, and after the submission the
\* provider's rating is the mean of all of that provider's review ratings.
C14_ReviewsSound ==
    /\ [](\A i, j \in 1..Len(reviews) :
            /\ reviews[i].rating \in 1..5
            /\ reviews[i].user = bookings[reviews[i].booking].user
            /\ reviews[i].provider = bookings[reviews[i].booking].provider
            /\ (i # j => reviews[i].booking # reviews[j].booking))
    /\ [][reviews' # reviews =>
            /\ Len(reviews') = Len(reviews) + 1
            /\ SubSeq(reviews', 1, Len(reviews)) = reviews
            /\ resp'.op = "submit_review" /\ resp'.success
            /\ LET r == reviews'[Len(reviews')]
                   mine == {i \in 1..Len(reviews') : reviews'[i].provider = r.provider}
               IN /\ bookings[r.booking].status = "completed"
                  /\ bookings[r.booking].user = r.user
                  /\ rating'[r.provider][2] = Cardinality(mine)
                  /\ rating'[r.provider][1] * Cardinality(mine)
                        = rating'[r.provider][2]
                            * SumRatings(reviews', [i \in 1..Len(reviews') |-> i \in mine])]_vars

C14_Witness ==
    /\ resp.op = "submit_review"
    /\ resp.success
    /\ Len(reviews) = 2
    /\ reviews[1].provider # reviews[2].provider
    /\ reviews[1].rating # reviews[2].rating

\* ------------------------------------------------------------------------
\* Properties of the notification socket
\* ------------------------------------------------------------------------

\* C15: a socket with an unauthenticated scope is in no group and has been
\* sent no notification; an accepted socket is a member of exactly its
\* user's group and its user's role group, and a socket that is not open is
\* in no group; a 'mark_read' frame changes only notifications of the
\* socket's user, and only by setting is_read.
C15_NotificationSocket ==
    /\ [](\A c \in 1..MaxConns :
            /\ conns[c].user = "" => (Memberships(c) = {} /\ inbox[c] = {})
            /\ conns[c].state = "open" =>
                  Memberships(c) = {UserGroup(conns[c].user), RoleGroup(conns[c].user)}
            /\ conns[c].state # "open" => Memberships(c) = {})
    /\ [][resp'.op = "NotificationConsumer.receive" =>
            \A c \in 1..MaxConns, n \in 0..MaxNotifications :
                NotificationConsumer_receive(c, "mark_read", n) =>
                    \A k \in 1..Len(notifications) :
                        notifications'[k] # notifications[k] =>
                            /\ notifications[k].user = conns[c].user
                            /\ notifications'[k] = [notifications[k] EXCEPT !.is_read = TRUE]]_vars

C15_Witness ==
    /\ resp.op = "NotificationConsumer.receive"
    /\ resp.msg = "mark_read"
    /\ resp.path = "1"
    /\ Len(notifications) = 2
    /\ notifications[1].user = "p1" /\ ~notifications[1].is_read
    /\ notifications[2].user = "c1" /\ notifications[2].is_read
    /\ conns[1] = [state |-> "open", user |-> "c1"]
    /\ conns[2] = [state |-> "closed", user |-> ""]
    /\ inbox[1] = {2}

\* ------------------------------------------------------------------------
\* Further properties of payments and the booking lifecycle
\* ------------------------------------------------------------------------

\* C16: when verify_payment has accepted the signature and updated the
\* caller's booking, a failure of the notification block does not fail the
\* request: the answer is success=true and the booking is paid and confirmed.
C16_NotificationFailureKeepsPayment ==
    [][resp'.op = "verify_payment" =>
        \A u \in Users, q \in AllVerifyRequests :
            (/\ verify_payment(u, q[1], q[2], q[3], q[4])
             /\ ~MissingPaymentDetails(q[1], q[2], q[3], q[4])
             /\ verify_payment_signature(q[1], q[2], q[3])
             /\ q[4] \in 1..Len(bookings)
             /\ bookings[q[4]].user = u
             /\ resp'.path # "sent")
            => (/\ resp'.success = TRUE
                /\ resp'.msg = "Payment verified successfully"
                /\ bookings'[q[4]].is_paid
                /\ bookings'[q[4]].status = "confirmed")]_vars

C16_Witness ==
    /\ resp.op = "verify_payment"
    /\ resp.path = "TypeError"
    /\ resp.success
    /\ \E b \in 1..Len(bookings) :
          bookings[b].is_paid /\ bookings[b].status = "confirmed" /\ bookings[b].paid_at = At(now)

\* C17: over the lifetime of a booking accept_booking adds the provider's
\* acceptance points for it at most once (complete_booking never gets to
\* save its points).
C17_AwardedAtMostOnce ==
    \A b \in BookingIds : awarded[b] <= 1

\* C18: a create_payment_order that answers success=false has changed no
\* Booking and no Payment row, and one that creates a Payment row answers
\* success=true.
C18_FailedOrderChangesNothing ==
    [][resp'.op = "create_payment_order" =>
        /\ resp'.success = FALSE => (payments' = payments /\ bookings' = bookings)
        /\ Len(payments') > Len(payments) => resp'.success = TRUE]_vars

\* C19: 'released' and 'refunded' are terminal for release_escrow,
\* dispute_escrow and the auto-release task: none of them changes the status
\* of an escrow that is 'released' or 'refunded'; and release_escrow does
\* not set 'released' on an escrow that is 'pending', 'disputed' or
\* 'refunded'.
TerminalEscrowStatuses == {"released", "refunded"}

EscrowStatusKept(b) ==
    (escrows[b] # Null /\ escrows[b][1].status \in TerminalEscrowStatuses)
    => escrows'[b][1].status = escrows[b][1].status

C19_TerminalEscrowStatuses ==
    [][/\ \A u \in Users, id \in BookingIds :
            /\ release_escrow(u, id) =>
                  /\ \A b \in BookingIds : EscrowStatusKept(b)
                  /\ (escrows[id] # Null
                        /\ escrows[id][1].status \in {"pending", "disputed", "refunded"})
                     => escrows'[id][1].status # "released"
            /\ dispute_escrow(u, id) => \A b \in BookingIds : EscrowStatusKept(b)
       /\ auto_release_escrow_payments => \A b \in BookingIds : EscrowStatusKept(b)]_vars

\* ------------------------------------------------------------------------
\* Properties of crowdfunding
\* ------------------------------------------------------------------------

RECURSIVE SumDonations(_, _)
SumDonations(dn, id) ==
    IF dn = <<>> THEN 0
    ELSE (IF dn[Len(dn)].campaign = id THEN dn[Len(dn)].amount ELSE 0)
            + SumDonations(SubSeq(dn, 1, Len(dn) - 1), id)

\* C20: whenever no donate_to_campaign request is between its statements, a
\* campaign's raised_amount is the sum of the amounts of its donations, and
\* the campaign is 'funded' if that sum has reached target_amount.
C20_RaisedIsSumOfDonations ==
    (\A j \in 1..MaxRequests : donate_jobs[j].pc \in {"idle", "done"}) =>
        \A c \in 1..Len(campaigns) :
            /\ campaigns[c].raised_amount = SumDonations(donations, c)
            /\ SumDonations(donations, c) >= campaigns[c].target_amount
                  => campaigns[c].status = "funded"

\* ------------------------------------------------------------------------
\* Properties of scheduling
\* ------------------------------------------------------------------------

\* C21: htmx_create_booking accepts a slot only if htmx_check_availability
\* would offer it: whenever htmx_create_booking creates a booking, the
\* provider has no time off on its date and its time is one of the slots
\* htmx_check_availability offers for that provider and date just before,
\* so it is inside the offered slots and not held by a booking in any
\* active status, 'in-progress' included.
C21_CreateAgreesWithCheck ==
    [][(resp'.op = "htmx_create_booking" /\ Len(bookings') = Len(bookings) + 1) =>
          LET booking == bookings'[Len(bookings')] IN
            /\ ~has_time_off(booking.provider, booking.scheduled_date)
            /\ booking.scheduled_time
                  \in available_slots(booking.provider, booking.scheduled_date)]_vars

====
